---- MODULE Spec2Model ----
(***************************************************************************)
(* The RRT planner of rrt_csa_anim.py (class RRT) as a state machine.      *)
(*                                                                         *)
(* Numbers.  Every length is an integer number of tenths: 0.8 is 8, 0.3 is *)
(* 3, a coordinate 1.2 is 12.  Points are pairs <<x, y>>.  The planner's   *)
(* only irrational quantity is SamplingRadius, which the code sets to a    *)
(* Euclidean distance (line 61, line 85) and then grows by adding          *)
(* ExpansionCoeff * ExpansionEps (line 88).  It is kept exactly, as the    *)
(* record [sq |-> s, add |-> a] that stands for sqrt(s) + a, and every     *)
(* comparison with it is decided by integer arithmetic (DistGreater).      *)
(*                                                                         *)
(* steer() multiplies path_resolution by cos/sin of the direction to the   *)
(* target.  The model draws the samples for which this is exact on the     *)
(* integer lattice (the distance to the target is an integer d and         *)
(* path_resolution * dx / d, path_resolution * dy / d are integers) and    *)
(* for which no comparison of the iteration is an exact tie that the       *)
(* floating-point rounding of the program would decide (ExactSample).      *)
(***************************************************************************)
EXTENDS Integers, Sequences, FiniteSets, TLC

VARIABLES
    start,            \* self.start position <<x, y>>            (line 51)
    goal,             \* self.end position <<x, y>>              (line 52)
    min_rand,         \* self.min_rand                           (line 53)
    max_rand,         \* self.max_rand                           (line 54)
    expand_dis,       \* self.expand_dis                         (line 55)
    path_resolution,  \* self.path_resolution                    (line 56)
    goal_sample_rate, \* self.goal_sample_rate                   (line 57)
    max_iter,         \* self.max_iter                           (line 58)
    obstacle_list,    \* self.obstacle_list: Seq of <<ox, oy, size>> (line 59)
    node_list,        \* self.node_list: Seq of nodes            (line 60, 73, 84)
    SamplingRadius,   \* self.SamplingRadius                     (line 61, 85, 88)
    i,                \* number of loop iterations begun         (line 74)
    pc,               \* where control is (see Pcs)
    new_node,         \* local new_node of planning() / result of steer (line 81)
    result,           \* value returned by planning()            (line 97, 102)
    collisions,       \* history: colliding steers since the last insertion
    radius0           \* history: SamplingRadius before the first of them

config == <<start, goal, min_rand, max_rand, expand_dis, path_resolution,
            goal_sample_rate, max_iter, obstacle_list>>
vars == <<start, goal, min_rand, max_rand, expand_dis, path_resolution,
          goal_sample_rate, max_iter, obstacle_list, node_list,
          SamplingRadius, i, pc, new_node, result, collisions,
          radius0>>

(***************************************************************************)
(* Program constants (tenths).                                             *)
(***************************************************************************)
InflationRadius == 8
ExpansionCoeff == 2
ExpansionEps == 3
GoalBiased == TRUE

(***************************************************************************)
(* Bounds of the model.                                                    *)
(***************************************************************************)
MaxIter == 3
MaxExtend == 12

(***************************************************************************)
(* Inputs the model draws from.                                            *)
(***************************************************************************)
Starts == {<<1, 0>>}
Goals == {<<6, 8>>, <<8, 0>>}
ObstacleLists == {<< >>, << <<-6, 6, 0>> >>, << <<-6, 6, 0>>, <<6, 14, 0>> >>}
RandAreas == {<<0, 10>>}
ExpandDistances == {5, 10}
PathResolutions == {5}
BadRandAreas == {<<10, 0>>, <<5, 5>>}
BadExpandDistances == {0, -5}
BadPathResolutions == {0, -5}

(***************************************************************************)
(* Arithmetic helpers.                                                     *)
(***************************************************************************)
Min2(a, b) == IF a < b THEN a ELSE b
Max2(a, b) == IF a < b THEN b ELSE a
Abs(a) == IF a < 0 THEN -a ELSE a
Sq(a) == a * a
Dist2(ax, ay, bx, by) == Sq(bx - ax) + Sq(by - ay)
IsSquare(n) == \E r \in 0..n : r * r = n
Sqrt(n) == CHOOSE r \in 0..n : r * r = n
\* math.floor(a / b) for b # 0
Floor(a, b) == IF b > 0 THEN a \div b ELSE (-a) \div (-b)

(***************************************************************************)
(* RRT.Node                                                                *)
(***************************************************************************)
\* a node: position, recorded path (path_x, path_y zipped), parent as the
\* index in node_list of the node object it refers to (0 is None)
Node(x, y) == [x |-> x, y |-> y, path |-> << >>, parent |-> 0]
NoNode == [x |-> 0, y |-> 0, path |-> << >>, parent |-> 0]

(***************************************************************************)
(* EuclideanDistanceOfNodes and the sampling radius sqrt(sq) + add.        *)
(***************************************************************************)
EuclideanDistanceOfNodes(ax, ay, bx, by) ==
    [sq |-> Dist2(ax, ay, bx, by), add |-> 0]

\* sqrt(D) < sqrt(R.sq) + R.add, decided exactly (R.add >= 0):
\*   sqrt(D) < sqrt(S) + a  <=>  D - S - a^2 < 2 a sqrt(S)
DistLess(D, R) ==
    LET L == D - R.sq - Sq(R.add)
    IN  L < 0 \/ Sq(L) < 4 * Sq(R.add) * R.sq
\* sqrt(D) > sqrt(R.sq) + R.add, decided exactly (R.add >= 0):
\*   sqrt(D) > sqrt(S) + a  <=>  D > a^2 /\ D + a^2 - S > 2 a sqrt(D)
DistGreater(D, R) ==
    LET L == D + Sq(R.add) - R.sq
    IN  D > Sq(R.add) /\ L > 0 /\ Sq(L) > 4 * Sq(R.add) * D
\* R1 <= R2 for a plain distance R1 (R1.add = 0)
RadiusLeq(R1, R2) == ~DistGreater(R1.sq, R2)

\* line 76: EuclideanDistanceOfNodes(self.end, rnd_node) > self.SamplingRadius,
\* for the sample rnd that line 75 drew
OutsideSamplingRadius(rnd, R) ==
    DistGreater(Dist2(goal[1], goal[2], rnd[1], rnd[2]), R)

\* a slip at line 85: the relaxation of line 88 added to the new distance
TightenedRadius_PlusRelaxation(node) ==
    [sq |-> Dist2(node.x, node.y, goal[1], goal[2]),
     add |-> ExpansionCoeff * ExpansionEps]
\* line 85: the radius after a collision-free insertion
TightenedRadius(node) ==
    EuclideanDistanceOfNodes(node.x, node.y, goal[1], goal[2])

\* a slip at line 88: ExpansionCoeff left out
RelaxedRadius_EpsOnly(R) == [R EXCEPT !.add = @ + ExpansionEps]
\* line 88: the radius after a colliding steer
RelaxedRadius(R) == [R EXCEPT !.add = @ + ExpansionCoeff * ExpansionEps]

(***************************************************************************)
(* RRT.get_random_node: the points it can return.  random.uniform(a, b) is *)
(* a + (b - a) * random(), a point between a and b whichever is larger;    *)
(* the model draws the lattice points of that square.  random.randint(0,   *)
(* 100) > goal_sample_rate takes the uniform branch, else the goal.        *)
(***************************************************************************)
UniformPoints ==
    LET lo == Min2(min_rand, max_rand)
        hi == Max2(min_rand, max_rand)
    IN  {<<x, y>> : x \in lo..hi, y \in lo..hi}
get_random_node ==
    IF GoalBiased
    THEN (IF goal_sample_rate < 100 THEN UniformPoints ELSE {})
         \cup (IF goal_sample_rate >= 0 THEN {goal} ELSE {})
    ELSE UniformPoints

(***************************************************************************)
(* RRT.get_nearest_node_index: dlist.index(min(dlist)), the first index of *)
(* the least squared distance.                                             *)
(***************************************************************************)
NodeDist2(nodes, k, rnd) == Dist2(nodes[k].x, nodes[k].y, rnd[1], rnd[2])
get_nearest_node_index(nodes, rnd) ==
    CHOOSE k \in 1..Len(nodes) :
        /\ \A j \in 1..Len(nodes) : NodeDist2(nodes, k, rnd) <= NodeDist2(nodes, j, rnd)
        /\ \A j \in 1..(k - 1) : NodeDist2(nodes, j, rnd) > NodeDist2(nodes, k, rnd)

(***************************************************************************)
(* RRT.calc_distance_and_angle: d, and theta as the pair <<cx, cy>> with   *)
(* path_resolution * cos(theta) = cx and path_resolution * sin(theta) = cy *)
(* (atan2(0, 0) is 0: cos 1, sin 0).                                       *)
(***************************************************************************)
calc_distance_and_angle(fx, fy, tx, ty) ==
    LET d == Sqrt(Dist2(fx, fy, tx, ty))
    IN  [d |-> d,
         cx |-> IF d = 0 THEN path_resolution ELSE (path_resolution * (tx - fx)) \div d,
         cy |-> IF d = 0 THEN 0 ELSE (path_resolution * (ty - fy)) \div d]

(***************************************************************************)
(* RRT.calc_dist_to_goal(x, y) <= self.expand_dis  (line 94)               *)
(***************************************************************************)
calc_dist_to_goal(x, y) == Dist2(x, y, goal[1], goal[2])
\* a slip at line 94: path_resolution compared instead of expand_dis
WithinExpandDis_Resolution(x, y) ==
    path_resolution >= 0 /\ calc_dist_to_goal(x, y) <= Sq(path_resolution)
WithinExpandDis(x, y) ==
    expand_dis >= 0 /\ calc_dist_to_goal(x, y) <= Sq(expand_dis)

(***************************************************************************)
(* RRT.steer, for path_resolution # 0 (line 115 divides by it).            *)
(***************************************************************************)
\* lines 112-115
n_expand(d, extend_length) ==
    Floor(IF extend_length > d THEN d ELSE extend_length, path_resolution)
\* a slip at line 124: a target at distance 0 is not appended again
SnapToTarget_NotAtTarget(x, y, tx, ty) ==
    IF /\ path_resolution >= 0
       /\ Dist2(x, y, tx, ty) <= Sq(path_resolution)
       /\ Dist2(x, y, tx, ty) > 0
    THEN << <<tx, ty>> >> ELSE << >>
\* lines 123-126: the target is appended when it is within path_resolution
SnapToTarget(x, y, tx, ty) ==
    IF path_resolution >= 0 /\ Dist2(x, y, tx, ty) <= Sq(path_resolution)
    THEN << <<tx, ty>> >> ELSE << >>
\* a slip at line 128: the parent is left None
ParentOf_None(from_ind) == 0
\* line 128: new_node.parent = from_node
ParentOf(from_ind) == from_ind
steer(from_ind, fx, fy, tx, ty, extend_length) ==
    LET da == calc_distance_and_angle(fx, fy, tx, ty)
        n == Max2(n_expand(da.d, extend_length), 0)
        x == fx + n * da.cx
        y == fy + n * da.cy
        walked == [k \in 1..(n + 1) |-> <<fx + (k - 1) * da.cx, fy + (k - 1) * da.cy>>]
    IN  [x |-> x, y |-> y,
         path |-> walked \o SnapToTarget(x, y, tx, ty),
         parent |-> ParentOf(from_ind)]

(***************************************************************************)
(* RRT.check_collision: TRUE is safe.                                      *)
(***************************************************************************)
check_collision(node, obstacleList) ==
    \A o \in 1..Len(obstacleList) :
        ~ \E k \in 1..Len(node.path) :
            Dist2(node.path[k][1], node.path[k][2],
                  obstacleList[o][1], obstacleList[o][2])
                <= Sq(obstacleList[o][3] + InflationRadius)

(***************************************************************************)
(* RRT.generate_final_course                                               *)
(***************************************************************************)
RECURSIVE ParentWalk(_, _)
RECURSIVE ParentWalk_NoRoot(_, _)
\* a slip at line 138: the node the walk stops at is not appended
ParentWalk_NoRoot(nodes, k) ==
    IF nodes[k].parent # 0
    THEN << <<nodes[k].x, nodes[k].y>> >> \o ParentWalk_NoRoot(nodes, nodes[k].parent)
    ELSE << >>
\* lines 135-138: the loop over node.parent and the append after it
ParentWalk(nodes, k) ==
    IF nodes[k].parent # 0
    THEN << <<nodes[k].x, nodes[k].y>> >> \o ParentWalk(nodes, nodes[k].parent)
    ELSE << <<nodes[k].x, nodes[k].y>> >>
generate_final_course(nodes, goal_ind) ==
    << <<goal[1], goal[2]>> >> \o ParentWalk(nodes, goal_ind)

\* a slip at line 96: the final steer is not collision-checked
FinalConnects_Unchecked(tip) == WithinExpandDis(tip.x, tip.y)
\* lines 94-96: the final steer to the goal is tried and is collision-free
FinalConnects(tip) ==
    /\ WithinExpandDis(tip.x, tip.y)
    /\ check_collision(steer(0, tip.x, tip.y, goal[1], goal[2], expand_dis),
                       obstacle_list)

\* a slip at line 84: the node appended on both branches of line 83
Inserted_Twice(nodes, n) == Append(Append(nodes, n), n)
\* line 84: self.node_list.append(new_node)
Inserted(nodes, n) == Append(nodes, n)

(***************************************************************************)
(* The samples the model draws.  A sample is drawn when the lattice        *)
(* arithmetic above computes its iteration exactly and no comparison of    *)
(* the iteration is an exact tie (equal reals), which the program's        *)
(* floating-point rounding would decide either way.                        *)
(***************************************************************************)
\* q is a power of two: every divisor of q above 1 is even
IsPowerOfTwo(q) == q >= 1 /\ \A p \in 2..q : q % p = 0 => p % 2 = 0
\* line 115, extend_length / self.path_resolution for the literals a / 10 and
\* b / 10 with b # 0: when b divides a the quotient of the two doubles is the
\* integer a / b itself if a is 0 or a / b is plus or minus a power of two
\* (0.5 / 0.5, 1.0 / 0.5) and may fall on either side of it otherwise
\* (0.6 / 0.2 is 2.9999999999999996); when b does not divide a the floor is
\* that of the reals
QuotientExact(a, b) ==
    a % Abs(b) = 0 => a = 0 \/ IsPowerOfTwo(Abs(a) \div Abs(b))
\* steer(from, to, extend_length): d is an integer, the step
\* path_resolution * (cos, sin) is integral, the quotient floored at line 115
\* is not an integer up to rounding (d computed by hypot when extend_length
\* is clamped to it at lines 112-113, QuotientExact otherwise), no step is
\* taken from a node at the target's own position (there d is the rounding
\* noise of the node's coordinates, which are float sums, and theta is the
\* atan2 of that noise, line 229), and the remaining distance is not
\* path_resolution itself (line 124)
SteerExact(fx, fy, tx, ty, extend_length) ==
    LET D == Dist2(fx, fy, tx, ty)
        d == Sqrt(D)
        res == path_resolution
    IN  /\ IsSquare(D)
        /\ d # 0 => /\ (res * (tx - fx)) % d = 0
                    /\ (res * (ty - fy)) % d = 0
        /\ res # 0 =>
            /\ ~(extend_length >= d /\ d # 0 /\ d % Abs(res) = 0)
            /\ extend_length < d => QuotientExact(extend_length, res)
            /\ d = 0 => n_expand(d, extend_length) <= 0
            /\ LET n == steer(0, fx, fy, tx, ty, extend_length)
               IN  ~(res > 0 /\ Dist2(n.x, n.y, tx, ty) = Sq(res))
\* check_collision(node, obstacleList): no recorded point lies exactly on an
\* inflated obstacle's boundary (line 219)
CollisionExact(node, obstacleList) ==
    \A o \in 1..Len(obstacleList) : \A k \in 1..Len(node.path) :
        Dist2(node.path[k][1], node.path[k][2],
              obstacleList[o][1], obstacleList[o][2])
            # Sq(obstacleList[o][3] + InflationRadius)
\* get_nearest_node_index: the least squared distance is attained once
NearestExact(nodes, rnd) ==
    LET k == get_nearest_node_index(nodes, rnd)
    IN  \A j \in 1..Len(nodes) :
            j # k => NodeDist2(nodes, j, rnd) > NodeDist2(nodes, k, rnd)
\* lines 94-96 for the node just inserted
FinalExact(tip) ==
    /\ expand_dis >= 0 => calc_dist_to_goal(tip.x, tip.y) # Sq(expand_dis)
    /\ WithinExpandDis(tip.x, tip.y) =>
        /\ SteerExact(tip.x, tip.y, goal[1], goal[2], expand_dis)
        /\ CollisionExact(steer(0, tip.x, tip.y, goal[1], goal[2], expand_dis),
                          obstacle_list)
ExactSample(rnd) ==
    LET D == Dist2(goal[1], goal[2], rnd[1], rnd[2])
        k == get_nearest_node_index(node_list, rnd)
        from == node_list[k]
        n == steer(k, from.x, from.y, rnd[1], rnd[2], expand_dis)
    IN  /\ DistGreater(D, SamplingRadius) \/ DistLess(D, SamplingRadius)
        /\ ~DistGreater(D, SamplingRadius) =>
            /\ NearestExact(node_list, rnd)
            /\ SteerExact(from.x, from.y, rnd[1], rnd[2], expand_dis)
            /\ path_resolution # 0 =>
                /\ CollisionExact(n, obstacle_list)
                /\ check_collision(n, obstacle_list) => FinalExact(n)

(***************************************************************************)
(* RRT.__init__ (lines 51-63): the state after construction, for the       *)
(* configurations drawn from the given sets.                               *)
(***************************************************************************)
Constructed(areas, expands, resolutions) ==
    /\ start \in Starts
    /\ goal \in Goals
    /\ \E a \in areas : min_rand = a[1] /\ max_rand = a[2]
    /\ expand_dis \in expands
    /\ path_resolution \in resolutions
    /\ goal_sample_rate = 5
    /\ max_iter \in 1..MaxIter
    /\ obstacle_list \in ObstacleLists
    /\ node_list = << >>
    /\ SamplingRadius = EuclideanDistanceOfNodes(start[1], start[2], goal[1], goal[2])
    /\ i = 0
    /\ pc = "constructed"
    /\ new_node = NoNode
    /\ result = << >>
    /\ collisions = 0
    /\ radius0 = SamplingRadius

Init == Constructed(RandAreas, ExpandDistances, PathResolutions)

InitAnyConfig ==
    Constructed(RandAreas \cup BadRandAreas,
                ExpandDistances \cup BadExpandDistances,
                PathResolutions \cup BadPathResolutions)

(***************************************************************************)
(* RRT.planning                                                            *)
(***************************************************************************)
\* pc: "constructed" before planning() is called; "loop" after line 73;
\* after an iteration, the line that ended it: "continue77" (sample outside
\* the sampling radius), "continue89" (colliding steer), "next" (node
\* inserted, end of the loop body), "return97" (path returned), "raise115"
\* (ZeroDivisionError in steer); "return102" (None returned)
InLoop == pc \in {"loop", "continue77", "continue89", "next"}

\* line 73
Planning ==
    /\ pc = "constructed"
    /\ node_list' = << Node(start[1], start[2]) >>
    /\ pc' = "loop"
    /\ UNCHANGED <<config, SamplingRadius, i, new_node, result,
                   collisions, radius0>>

\* lines 74-100, one iteration of the for loop with the sample rnd
Iterate(rnd) ==
    /\ InLoop
    /\ i < max_iter
    /\ ExactSample(rnd)
    /\ i' = i + 1
    /\ UNCHANGED config
    /\ IF OutsideSamplingRadius(rnd, SamplingRadius)
       THEN /\ pc' = "continue77"
            /\ UNCHANGED <<node_list, SamplingRadius, new_node, result,
                           collisions, radius0>>
       ELSE IF path_resolution = 0
       THEN /\ pc' = "raise115"
            /\ UNCHANGED <<node_list, SamplingRadius, new_node, result,
                           collisions, radius0>>
       ELSE LET nearest_ind == get_nearest_node_index(node_list, rnd)
                nearest_node == node_list[nearest_ind]
                n == steer(nearest_ind, nearest_node.x, nearest_node.y,
                           rnd[1], rnd[2], expand_dis)
            IN  /\ new_node' = n
                /\ IF check_collision(n, obstacle_list)
                   THEN /\ node_list' = Inserted(node_list, n)
                        /\ SamplingRadius' = TightenedRadius(n)
                        /\ collisions' = 0
                        /\ radius0' = SamplingRadius'
                        /\ IF FinalConnects(n)
                           THEN /\ pc' = "return97"
                                /\ result' = generate_final_course(node_list', Len(node_list'))
                           ELSE /\ pc' = "next"
                                /\ result' = result
                   ELSE /\ SamplingRadius' = RelaxedRadius(SamplingRadius)
                        /\ pc' = "continue89"
                        /\ collisions' = collisions + 1
                        /\ radius0' = IF collisions = 0 THEN SamplingRadius ELSE radius0
                        /\ UNCHANGED <<node_list, result>>

\* line 102, after the loop has run max_iter times
ReturnNone ==
    /\ InLoop
    /\ i >= max_iter
    /\ pc' = "return102"
    /\ UNCHANGED <<config, node_list, SamplingRadius, i, new_node,
                   result, collisions, radius0>>

Next ==
    \/ Planning
    \/ \E rnd \in get_random_node : Iterate(rnd)
    \/ ReturnNone

Spec == Init /\ [][Next]_vars

SpecAnyConfig == InitAnyConfig /\ [][Next]_vars

(***************************************************************************)
(* steer() on its own: a call steer(from, to, extend_length) for a node    *)
(* `from` at start, a target at goal and extend_length in expand_dis.      *)
(***************************************************************************)
SteerPoints == {<<x, y>> : x \in 0..3, y \in 0..3}
SteerResolutions == {2, 5}

InitSteer ==
    /\ start \in SteerPoints
    /\ goal \in SteerPoints
    /\ min_rand = 0
    /\ max_rand = 3
    /\ expand_dis \in (0 - MaxExtend)..MaxExtend
    /\ path_resolution \in SteerResolutions
    /\ goal_sample_rate = 5
    /\ max_iter = 0
    /\ obstacle_list = << >>
    /\ node_list = << Node(start[1], start[2]) >>
    /\ SamplingRadius = EuclideanDistanceOfNodes(start[1], start[2], goal[1], goal[2])
    /\ i = 0
    /\ pc = "steer"
    /\ new_node = NoNode
    /\ result = << >>
    /\ collisions = 0
    /\ radius0 = SamplingRadius
    /\ SteerExact(start[1], start[2], goal[1], goal[2], expand_dis)

CallSteer ==
    /\ pc = "steer"
    /\ new_node' = steer(1, node_list[1].x, node_list[1].y, goal[1], goal[2], expand_dis)
    /\ pc' = "steered"
    /\ UNCHANGED <<config, node_list, SamplingRadius, i, result, collisions, radius0>>

SpecSteer == InitSteer /\ [][CallSteer]_vars

(***************************************************************************)
(* Properties.                                                             *)
(***************************************************************************)
NodeAt(k) == <<node_list[k].x, node_list[k].y>>
GoalDist2(k) == calc_dist_to_goal(node_list[k].x, node_list[k].y)
\* an iteration of the loop has just ended by inserting a node
InsertedPc(p) == p \in {"next", "return97"}

\* C1: whenever planning() returns a path, its first element is the goal's
\* coordinates and its last element the start's coordinates.
C1_PathEndpoints ==
    pc = "return97" =>
        /\ Len(result) >= 2
        /\ result[1] = goal
        /\ result[Len(result)] = start
C1_Witness == pc = "return97" /\ Len(result) >= 4

\* C2: whenever planning() returns a path, steering between every
\* consecutive pair of its points (tree direction: from the later element,
\* the parent or the tree tip, to the earlier one) at path_resolution
\* granularity records no point within radius + InflationRadius of an
\* obstacle centre; the pair (tree tip, goal) included.
C2_PathCollisionFree ==
    pc = "return97" =>
        \A j \in 1..(Len(result) - 1) :
            check_collision(
                steer(0, result[j + 1][1], result[j + 1][2],
                      result[j][1], result[j][2], expand_dis),
                obstacle_list)
C2_Witness ==
    pc = "return97" /\ Len(result) >= 4 /\ Len(obstacle_list) >= 1

\* C3 (as claimed): a run of planning() that has left the loop has returned
\* a path or None, None only after max_iter iterations, and never more than
\* max_iter iterations are run.
C3_PathOrNone ==
    /\ i <= max_iter
    /\ (pc # "constructed" /\ ~InLoop) => pc \in {"return97", "return102"}
    /\ pc = "return102" => i = max_iter

\* C4: after N consecutive colliding steers (no insertion between them, any
\* number of rejected samples interleaved) SamplingRadius is its value
\* before the first of them plus N * ExpansionCoeff * ExpansionEps.
C4_RadiusAfterCollisions ==
    collisions > 0 =>
        SamplingRadius =
            [sq |-> radius0.sq,
             add |-> radius0.add + collisions * ExpansionCoeff * ExpansionEps]
C4_Witness == Len(node_list) = 1 /\ collisions = 2 /\ i = 3

\* the case of C5: no obstacle and distance(start, goal) <= expand_dis
C5_Case ==
    /\ obstacle_list = << >>
    /\ expand_dis >= 0
    /\ Dist2(start[1], start[2], goal[1], goal[2]) <= Sq(expand_dis)
\* C5 (as claimed): in that case planning() succeeds within 1 iteration, the
\* first loop iteration returns a path.
C5_Original == (C5_Case /\ i >= 1) => pc = "return97"
\* C5 (amended): in that case the first iteration whose sample passes the
\* sampling-radius gate returns a path; before it only rejected samples
\* (each counted against max_iter) or the exhaustion of max_iter occur, and
\* nothing is inserted without returning.
C5_FirstAcceptedSampleReturns ==
    C5_Case =>
        /\ pc \in {"constructed", "loop", "continue77", "return97", "return102"}
        /\ pc # "return97" => Len(node_list) <= 1
C5_Witness == C5_Case /\ pc = "return97" /\ i >= 2

\* C6 (as claimed): steer(a, a, L) returns a node at a's position whose
\* recorded path contains exactly one point.
C6_Original ==
    (pc = "steered" /\ goal = start) =>
        /\ <<new_node.x, new_node.y>> = start
        /\ Len(new_node.path) = 1
\* C6 (amended): steer(a, a, L) returns a node at a's position whose
\* recorded path contains exactly two points, both a: the starting point
\* and the target appended by lines 124-126 (d = 0 <= path_resolution).
C6_ZeroSteerTwoPoints ==
    (pc = "steered" /\ goal = start) =>
        /\ <<new_node.x, new_node.y>> = start
        /\ new_node.path = <<start, start>>
C6_Witness == pc = "steered" /\ goal = start /\ expand_dis > 0

\* the malformed configurations of C7
Malformed == expand_dis <= 0 \/ path_resolution <= 0 \/ min_rand >= max_rand
\* C7 (as claimed): with a malformed configuration planning() never starts
\* an iteration and no error appears in the loop.
C7_NoIterationWhenMalformed == Malformed => (i = 0 /\ pc # "raise115")

\* C8: during planning() node_list[0] is the start node and the only node
\* without a parent, every other node's parent is stored at a strictly lower
\* index, and the nodes in the list are never removed, reordered or changed.
C8_TreeShape ==
    pc # "constructed" =>
        /\ Len(node_list) >= 1
        /\ NodeAt(1) = start
        /\ node_list[1].parent = 0
        /\ \A k \in 2..Len(node_list) : node_list[k].parent \in 1..(k - 1)
C8_Tree ==
    /\ []C8_TreeShape
    /\ [][pc # "constructed" =>
            /\ Len(node_list') >= Len(node_list)
            /\ SubSeq(node_list', 1, Len(node_list)) = node_list]_vars
C8_Witness ==
    /\ Len(node_list) >= 3
    /\ node_list[2].parent = 1
    /\ node_list[3].parent = 2

\* C9: every loop iteration is counted and changes the tree in one of these
\* ways: the sample is rejected, tree and SamplingRadius unchanged; the
\* steered node collides, tree unchanged; the steered node is
\* collision-free, exactly that one node appended.
C9_IterationEffect ==
    [][pc' \notin {"loop", "return102"} =>
        /\ i' = i + 1
        /\ \/ /\ pc' = "continue77"
              /\ node_list' = node_list
              /\ SamplingRadius' = SamplingRadius
           \/ /\ pc' = "continue89"
              /\ ~check_collision(new_node', obstacle_list)
              /\ node_list' = node_list
           \/ /\ InsertedPc(pc')
              /\ check_collision(new_node', obstacle_list)
              /\ node_list' = Append(node_list, new_node')]_vars
C9_Witness == pc = "continue89" /\ Len(node_list) = 2 /\ i = 3

\* C10 (as claimed): in every iteration that appends a node SamplingRadius
\* afterwards is no greater than before.
C10_Original ==
    [][(i' = i + 1 /\ InsertedPc(pc')) =>
        RadiusLeq(SamplingRadius', SamplingRadius)]_vars
\* C10 (amended): an iteration that appends a node sets SamplingRadius to
\* distance(newNode, goal), which is no greater than before whenever the
\* node steered from (the new node's parent) is itself within the previous
\* SamplingRadius of the goal; a rejected sample leaves it unchanged and a
\* colliding steer adds ExpansionCoeff * ExpansionEps.
C10_RadiusUpdate ==
    [][i' = i + 1 =>
        /\ InsertedPc(pc') =>
            LET n == node_list'[Len(node_list')]
            IN  /\ SamplingRadius' = [sq |-> Dist2(n.x, n.y, goal[1], goal[2]), add |-> 0]
                /\ ~DistGreater(GoalDist2(n.parent), SamplingRadius) =>
                       RadiusLeq(SamplingRadius', SamplingRadius)
        /\ pc' = "continue77" => SamplingRadius' = SamplingRadius
        /\ pc' = "continue89" =>
               /\ SamplingRadius'.sq = SamplingRadius.sq
               /\ SamplingRadius'.add = SamplingRadius.add + ExpansionCoeff * ExpansionEps]_vars
C10_Witness ==
    /\ InsertedPc(pc) /\ i = 2 /\ Len(node_list) = 3
    /\ node_list[3].parent = 2
    /\ GoalDist2(3) < GoalDist2(2)

====
